---- MODULE Spec2Model ----
(***************************************************************************)
(* State-machine model of the task-lifecycle and resource-governance core  *)
(* of map-think-do:                                                        *)
(*   - Mutex                    (src/src/utils/mutex.ts)                   *)
(*   - TimerManager             (src/src/utils/timer-manager.ts, 1..505)   *)
(*   - ResourceLifecycleManager (src/unnamed/part_003)                     *)
(*   - ResourcePool             (src/unnamed/part_001)                     *)
(* Each component has its own next-state relation and specification; the   *)
(* variables of the other components stay at their initial values.         *)
(***************************************************************************)
EXTENDS Integers, Sequences, FiniteSets, TLC

(***************************************************************************)
(* Bounds of the model.                                                    *)
(***************************************************************************)
\* number of Mutex.lock / Mutex.withLock calls made on the one lock
MaxCalls == 3

\* number of host timers the TimerManager arms over a run
MaxHostTimers == 2

\* number of callback invocations of one host timer
MaxFires == 2

\* the clock runs from 0 to MaxTime
MaxTime == 2

\* largest maxExecutions, ttlMs and memoryPressureLimit passed to setInterval
MaxRuns == 2

MaxTtl == 1

MaxLimit == 1

\* largest memory pressure level sampled
MaxPressure == 2

\* number of prepareShutdown calls
MaxShutdownCalls == 1

\* largest hardCap asked of the emergency drain
MaxHardCap == 1

\* number of register calls on the resource manager
MaxRegistrations == 5

\* largest maxResources the resource manager is constructed with
MaxCapacity == 3

\* number of access calls the tracked resources have counted together
MaxAccessCount == 1

\* number of suspended calls (unregister, idle sweep, dispose) at which the application
\* and the cleanup timer start no further one
MaxJobs == 1

\* the resource manager's clock runs from 0 to MaxClock
MaxClock == 2

\* the maxIdleTime option the resource manager is constructed with
IdleTime == 1

\* largest number of tasks in the registry when the emergency cleanup is called
MaxTasks == 13

\* number of acquire calls made on the resource pool
MaxAcquires == 4

\* largest maxSize the resource pool is constructed with
MaxPoolSize == 2

\* number of dispose calls made on the resource pool
MaxDisposals == 1

\* JavaScript `undefined` (an absent optional field or argument)
Undefined == -1

Max(a, b) == IF a >= b THEN a ELSE b


(***************************************************************************)
(*                               M U T E X                                 *)
(***************************************************************************)
VARIABLES
    queue,                \* Mutex.queue: the queueItems, each named by its call
    locked,               \* Mutex.locked
    lockAcquisitionCount, \* Mutex.lockAcquisitionCount
    contentionCount,      \* Mutex.contentionCount
    maxQueueSize,         \* Mutex.maxQueueSize
    currentHolder,        \* Mutex.currentHolder
    callState,            \* per call: state of the promise lock() returned and of its caller
    callKind,             \* per call: "lock" (raw acquire) or "withLock"
    holderId,             \* per call: the holderId argument (the call itself, or undefined)
    timeoutArmed,         \* per call: its setTimeout(..., timeoutMs) timer is pending
    immediates,           \* setImmediate(() => next.tryLock()) callbacks, in scheduling order
    owner,                \* history: the call whose tryLock last set locked
    releaseCalls,         \* history: per call, how often its release function was called
    fnStarted,            \* history: per call, withLock has invoked the supplied function
    overtaken,            \* history: a grant was made while an earlier call was still pending
    timedOut,             \* history: per call, its timeout callback has run
    foundLocked           \* history: per call, the lock was held when the call was made

mutexVars == <<queue, locked, lockAcquisitionCount, contentionCount, maxQueueSize,
               currentHolder, callState, callKind, holderId, timeoutArmed, immediates,
               owner, releaseCalls, fnStarted, overtaken, timedOut, foundLocked>>

VARIABLES
    timers,          \* TimerManager.timers: id -> TimerHandle
    host,            \* the host timers setInterval/setTimeout created, in creation order;
                     \* a TimerHandle.timer is an index into this sequence
    nextId,          \* TimerManager.nextId
    isShuttingDown,  \* TimerManager.isShuttingDown
    graceTimers,     \* pending setTimeout(..., 1000) callbacks of prepareShutdown
    now,             \* Date.now()
    lastReturn,      \* the value returned by the API call of the last step, if it was one
    lastLog,         \* the reason in the "Auto-terminating timer" log line of the last step
    lastError,       \* the last step logged a "callback error" line
    graceElapsed     \* history: a grace timer of prepareShutdown has fired

timerVars == <<timers, host, nextId, isShuttingDown, graceTimers, now, lastReturn,
               lastLog, lastError, graceElapsed>>

VARIABLES
    resources,       \* ResourceLifecycleManager.resources, in Map insertion order
    maxResources,    \* ResourceLifecycleManager.maxResources, Undefined before `new`
    maxIdleTime,     \* ResourceLifecycleManager.maxIdleTime, Undefined before `new`
    cleanupInterval, \* ResourceLifecycleManager.cleanupInterval is set (the sweep is armed)
    clock,           \* new Date().getTime()
    instances,       \* number of NativeResource objects passed to register so far
    cleanupCalls,    \* history: per NativeResource object, how often cleanup() was called
    jobs,            \* the async calls suspended at `await info.resource.cleanup()` (line 91),
                     \* each with the rest of the loop that awaits it
    idsUsed          \* how many of the ResourceIds register has been called with so far

resourceVars == <<resources, maxResources, maxIdleTime, cleanupInterval, clock, instances,
                  cleanupCalls, jobs, idsUsed>>

VARIABLES
    poolResources,   \* ResourcePool.resources, the objects createResource returned
    inUse,           \* ResourcePool.inUse
    waiting,         \* ResourcePool.waiting: the resolve functions, each named by its call
    maxSize,         \* ResourcePool.maxSize, Undefined before `new`
    created,         \* number of createResource() calls so far; the objects are numbered
    acquireState,    \* per acquire call: state of its promise and of its caller
    held,            \* per acquire call: the object its promise was resolved with, 0 if none
    disposals        \* number of dispose() calls so far

poolVars == <<poolResources, inUse, waiting, maxSize, created, acquireState, held, disposals>>

\* the variables a Mutex step leaves alone
notMutexVars == <<timerVars, resourceVars, poolVars>>

\* the variables a TimerManager step leaves alone
notTimerVars == <<mutexVars, resourceVars, poolVars>>

\* the variables a ResourceLifecycleManager step leaves alone
notResourceVars == <<mutexVars, timerVars, poolVars>>

\* the variables a ResourcePool step leaves alone
notPoolVars == <<mutexVars, timerVars, resourceVars>>

Calls == 1..MaxCalls

CallStates == {"idle", "pending", "granted", "infn", "released", "returned", "threw", "rejected"}

\* a promise settles once: resolve/reject after the first settlement are no-ops
Settle(s, outcome) == IF s = "pending" THEN outcome ELSE s

\* mutex.ts:15  if (!this.locked)
CanGrant(lk) == ~lk

\* mutex.ts:29  this.queue.findIndex(item => item.tryLock === tryLock)
\* item.tryLock is the wrapper closure of lines 37-40, never the inner tryLock of
\* line 14, so no item matches and the result is -1 (here 0: sequences start at 1).
TimeoutFindIndex(q, c) == 0

\* mutex.ts:30-32 splice(queueIndex, 1) when queueIndex !== -1
Splice(q, i) == IF i = 0 THEN q ELSE SubSeq(q, 1, i - 1) \o SubSeq(q, i + 1, Len(q))

MutexInit ==
    /\ queue = <<>>
    /\ locked = FALSE
    /\ lockAcquisitionCount = 0
    /\ contentionCount = 0
    /\ maxQueueSize = 0
    /\ currentHolder = Undefined
    /\ callState = [c \in Calls |-> "idle"]
    /\ callKind = [c \in Calls |-> "lock"]
    /\ holderId = [c \in Calls |-> Undefined]
    /\ timeoutArmed = [c \in Calls |-> FALSE]
    /\ immediates = <<>>
    /\ owner = Undefined
    /\ releaseCalls = [c \in Calls |-> 0]
    /\ fnStarted = [c \in Calls |-> FALSE]
    /\ overtaken = FALSE
    /\ timedOut = [c \in Calls |-> FALSE]
    /\ foundLocked = [c \in Calls |-> FALSE]

\* some call earlier than c is still pending (neither granted nor rejected)
EarlierPending(c, st) == \E b \in Calls : b < c /\ st[b] = "pending"

\* mutex.ts:14-26 tryLock of call c, preceded by the clearTimeout of the wrapper
\* (lines 37-40).  st and armed are callState and timeoutArmed as the caller left them,
\* tag is the holderId the closure captured.
TryLock(c, st, armed, tag) ==
    /\ timeoutArmed' = [armed EXCEPT ![c] = FALSE]
    /\ IF CanGrant(locked)
       THEN /\ locked' = TRUE
            /\ lockAcquisitionCount' = lockAcquisitionCount + 1
            /\ currentHolder' = tag
            /\ callState' = [st EXCEPT ![c] = Settle(st[c], "granted")]
            /\ owner' = c
            /\ overtaken' = (overtaken \/ (st[c] = "pending" /\ EarlierPending(c, st)))
            /\ UNCHANGED contentionCount
       ELSE /\ contentionCount' = contentionCount + 1
            /\ callState' = st
            /\ UNCHANGED <<locked, lockAcquisitionCount, currentHolder, owner, overtaken>>

\* mutex.ts:12-51 lock(timeoutMs, holderId); withLock (line 69) starts with the same call.
\* Calls are numbered in arrival order.
Lock(c, kind, tag) ==
    /\ callState[c] = "idle"
    /\ \A b \in Calls : b < c => callState[b] # "idle"
    /\ callKind' = [callKind EXCEPT ![c] = kind]
    /\ holderId' = [holderId EXCEPT ![c] = tag]
    /\ queue' = Append(queue, c)
    /\ maxQueueSize' = Max(maxQueueSize, Len(queue'))
    /\ IF Len(queue') = 1
       THEN TryLock(c, [callState EXCEPT ![c] = "pending"],
                    [timeoutArmed EXCEPT ![c] = TRUE], tag)
       ELSE /\ callState' = [callState EXCEPT ![c] = "pending"]
            /\ timeoutArmed' = [timeoutArmed EXCEPT ![c] = TRUE]
            /\ UNCHANGED <<locked, lockAcquisitionCount, contentionCount, currentHolder,
                           owner, overtaken>>
    /\ foundLocked' = [foundLocked EXCEPT ![c] = locked]
    /\ UNCHANGED <<immediates, releaseCalls, fnStarted, timedOut>>
    /\ UNCHANGED notMutexVars

\* variant of Timeout: the timeout callback also forces the lock open
TimeoutReleasing(c) ==
    /\ timeoutArmed[c]
    /\ timeoutArmed' = [timeoutArmed EXCEPT ![c] = FALSE]
    /\ queue' = Splice(queue, TimeoutFindIndex(queue, c))
    /\ callState' = [callState EXCEPT ![c] = Settle(callState[c], "rejected")]
    /\ timedOut' = [timedOut EXCEPT ![c] = TRUE]
    /\ locked' = FALSE
    /\ currentHolder' = Undefined
    /\ UNCHANGED <<lockAcquisitionCount, contentionCount, maxQueueSize,
                   callKind, holderId, immediates, owner, releaseCalls,
                   fnStarted, overtaken, foundLocked>>
    /\ UNCHANGED notMutexVars

\* mutex.ts:28-34 the timeout callback of call c
Timeout(c) ==
    /\ timeoutArmed[c]
    /\ timeoutArmed' = [timeoutArmed EXCEPT ![c] = FALSE]
    /\ queue' = Splice(queue, TimeoutFindIndex(queue, c))
    /\ callState' = [callState EXCEPT ![c] = Settle(callState[c], "rejected")]
    /\ timedOut' = [timedOut EXCEPT ![c] = TRUE]
    /\ UNCHANGED <<locked, lockAcquisitionCount, contentionCount, maxQueueSize,
                   currentHolder, callKind, holderId, immediates, owner, releaseCalls,
                   fnStarted, overtaken, foundLocked>>
    /\ UNCHANGED notMutexVars

\* mutex.ts:64 the setImmediate callback: next.tryLock()
RunImmediate ==
    /\ immediates # <<>>
    /\ immediates' = Tail(immediates)
    /\ TryLock(Head(immediates), callState, timeoutArmed, holderId[Head(immediates)])
    /\ UNCHANGED <<queue, maxQueueSize, callKind, holderId, releaseCalls, fnStarted,
                   timedOut, foundLocked>>
    /\ UNCHANGED notMutexVars

\* mutex.ts:53-66 unlock(); st is callState as the caller of unlock left it
Unlock(st) ==
    /\ locked' = FALSE
    /\ currentHolder' = Undefined
    /\ queue' = IF queue = <<>> THEN queue ELSE Tail(queue)
    /\ timeoutArmed' = IF queue = <<>> THEN timeoutArmed
                       ELSE [timeoutArmed EXCEPT ![Head(queue)] = FALSE]
    /\ immediates' = IF Len(queue') > 0 THEN Append(immediates, Head(queue'))
                     ELSE immediates
    /\ callState' = st
    /\ UNCHANGED <<lockAcquisitionCount, contentionCount, maxQueueSize, callKind,
                   holderId, owner, fnStarted, overtaken, timedOut, foundLocked>>

\* the caller of lock() calls the release function it was given (mutex.ts:19)
Release(c) ==
    /\ callKind[c] = "lock"
    /\ callState[c] = "granted"
    /\ releaseCalls' = [releaseCalls EXCEPT ![c] = 1]
    /\ Unlock([callState EXCEPT ![c] = "released"])
    /\ UNCHANGED notMutexVars

\* the same release function called a second time: nothing in lines 19, 53-66 guards it
ReleaseAgain(c) ==
    /\ callKind[c] = "lock"
    /\ callState[c] = "released"
    /\ releaseCalls[c] = 1
    /\ releaseCalls' = [releaseCalls EXCEPT ![c] = 2]
    /\ Unlock(callState)
    /\ UNCHANGED notMutexVars

\* variant of FnStart: `return fn()` without await, so that the finally block
\* unlocks while fn is still running
FnStartNoAwait(c) ==
    /\ callKind[c] = "withLock"
    /\ callState[c] = "granted"
    /\ fnStarted' = [fnStarted EXCEPT ![c] = TRUE]
    /\ locked' = FALSE
    /\ currentHolder' = Undefined
    /\ queue' = IF queue = <<>> THEN queue ELSE Tail(queue)
    /\ immediates' = IF Len(queue') > 0 THEN Append(immediates, Head(queue'))
                     ELSE immediates
    /\ callState' = [callState EXCEPT ![c] = "infn"]
    /\ UNCHANGED <<lockAcquisitionCount, contentionCount, maxQueueSize, callKind,
                   holderId, timeoutArmed, owner, releaseCalls, overtaken, timedOut,
                   foundLocked>>
    /\ UNCHANGED notMutexVars

\* mutex.ts:69-71 withLock resumes after `await this.lock(...)` and calls fn()
FnStart(c) ==
    /\ callKind[c] = "withLock"
    /\ callState[c] = "granted"
    /\ callState' = [callState EXCEPT ![c] = "infn"]
    /\ fnStarted' = [fnStarted EXCEPT ![c] = TRUE]
    /\ UNCHANGED <<queue, locked, lockAcquisitionCount, contentionCount, maxQueueSize,
                   currentHolder, callKind, holderId, timeoutArmed, immediates, owner,
                   releaseCalls, overtaken, timedOut, foundLocked>>
    /\ UNCHANGED notMutexVars

\* mutex.ts:71-74 fn() returns or throws; the finally block calls unlock() and the
\* result or the exception is propagated to the caller of withLock
FnExit(c, outcome) ==
    /\ callKind[c] = "withLock"
    /\ callState[c] = "infn"
    /\ releaseCalls' = [releaseCalls EXCEPT ![c] = 1]
    /\ Unlock([callState EXCEPT ![c] = outcome])
    /\ UNCHANGED notMutexVars

\* mutex.ts:88-92 resetStats()
ResetStats ==
    /\ lockAcquisitionCount + contentionCount + maxQueueSize > 0
    /\ lockAcquisitionCount' = 0
    /\ contentionCount' = 0
    /\ maxQueueSize' = 0
    /\ UNCHANGED <<queue, locked, currentHolder, callState, callKind, holderId,
                   timeoutArmed, immediates, owner, releaseCalls, fnStarted, overtaken,
                   timedOut, foundLocked>>
    /\ UNCHANGED notMutexVars

\* mutex.ts:77-86 getStats()
GetStats ==
    [isLocked |-> locked, queueSize |-> Len(queue),
     lockAcquisitionCount |-> lockAcquisitionCount, contentionCount |-> contentionCount,
     maxQueueSize |-> maxQueueSize, currentHolder |-> currentHolder]


(***************************************************************************)
(*                       T I M E R   M A N A G E R                         *)
(***************************************************************************)
\* the names callers pass to setInterval/setTimeout
Names == {"a"}

\* what a callback does besides returning
CallbackBehaviours == {"return", "throw", "reregister", "cancel"}

MaxExecutionsChoices == {Undefined} \cup (0..MaxRuns)

TtlChoices == {Undefined} \cup (0..MaxTtl)

PressureLimitChoices == {Undefined} \cup (0..MaxLimit)

AllOptions ==
    [maxExecutions : MaxExecutionsChoices, ttlMs : TtlChoices,
     memoryPressureLimit : PressureLimitChoices]

DefinedFields(o) ==
    {f \in {"maxExecutions", "ttlMs", "memoryPressureLimit"} : o[f] # Undefined}

\* the options argument of setInterval (timer-manager.ts:49-53) in runs about the
\* registry: no condition, or a positive maxExecutions only
RunLimitOptions ==
    {o \in AllOptions : DefinedFields(o) \subseteq {"maxExecutions"} /\ o.maxExecutions # 0}

NoOptions ==
    [maxExecutions |-> Undefined, ttlMs |-> Undefined, memoryPressureLimit |-> Undefined]

\* process.memoryUsage(): heapUsed / heapTotal, as a level (timer-manager.ts:454-461)
Pressures == 0..MaxPressure

\* JavaScript truthiness of an optional number: undefined and 0 are falsy
Truthy(x) == x # Undefined /\ x # 0

Remove(f, k) == [x \in DOMAIN f \ {k} |-> f[x]]

Put(f, k, v) == [x \in DOMAIN f \cup {k} |-> IF x = k THEN v ELSE f[x]]

\* the manager's mutable state, threaded through nested calls
TM == [timers |-> timers, host |-> host, nextId |-> nextId]

TimerInit ==
    /\ timers = << >>
    /\ host = << >>
    /\ nextId = 1
    /\ isShuttingDown = FALSE
    /\ graceTimers = 0
    /\ now = 0
    /\ lastReturn = "none"
    /\ lastLog = "none"
    /\ lastError = FALSE
    /\ graceElapsed = FALSE

\* timer-manager.ts:174-193 clearTimer(id): the state it leaves
ClearTimerOp(m, id) ==
    IF id \notin DOMAIN m.timers THEN m
    ELSE [m EXCEPT !.host[m.timers[id].timer].armed = FALSE,
                   !.timers = Remove(m.timers, id)]

\* variant of ClearTimerResult: cancel always reports success
ClearTimerResultTrue(m, id) == TRUE

\* timer-manager.ts:175-178, 192 clearTimer(id): the value it returns
ClearTimerResult(m, id) == id \in DOMAIN m.timers

\* timer-manager.ts:63-65 / 131-133: clear any existing timer with the same name
ClearExistingKeeping(m, id) == [m EXCEPT !.timers = Remove(m.timers, id)]

ClearExisting(m, id) == IF id \in DOMAIN m.timers THEN ClearTimerOp(m, id) ELSE m

\* timer-manager.ts:55-58 / 123-126: the isShuttingDown guard
AcceptsAlways(shutting) == TRUE

Accepts(shutting) == ~shutting

\* timer-manager.ts:60 / 128: name || `${prefix}_${this.nextId++}`
IdFor(m, name, prefix) == IF name # "" THEN name ELSE prefix \o ToString(m.nextId)

\* timer-manager.ts:45-117 setInterval(callback, delay, name, options): the state it leaves
SetIntervalOp(m, name, opts, t, shutting) ==
    IF ~Accepts(shutting) THEN m
    ELSE LET id == IdFor(m, name, "interval_")
             m1 == IF name # "" THEN m ELSE [m EXCEPT !.nextId = @ + 1]
             m2 == ClearExisting(m1, id)
             handle == [type |-> "interval", timer |-> Len(m2.host) + 1, created |-> t,
                        executionCount |-> 0, maxExecutions |-> opts.maxExecutions,
                        ttlMs |-> opts.ttlMs,
                        memoryPressureLimit |-> opts.memoryPressureLimit,
                        streamCompleted |-> FALSE]
         IN  [m2 EXCEPT !.host = Append(@, [id |-> id, type |-> "interval", armed |-> TRUE,
                                            calls |-> 0]),
                        !.timers = Put(@, id, handle)]

\* timer-manager.ts:55-60, 116: the id setInterval returns
SetIntervalResult(m, name, shutting) ==
    IF ~Accepts(shutting) THEN "" ELSE IdFor(m, name, "interval_")

\* timer-manager.ts:122-169 setTimeout(callback, delay, name): the state it leaves
SetTimeoutOp(m, name, t, shutting) ==
    IF ~Accepts(shutting) THEN m
    ELSE LET id == IdFor(m, name, "timeout_")
             m1 == IF name # "" THEN m ELSE [m EXCEPT !.nextId = @ + 1]
             m2 == ClearExisting(m1, id)
             handle == [type |-> "timeout", timer |-> Len(m2.host) + 1, created |-> t,
                        executionCount |-> 0, maxExecutions |-> Undefined,
                        ttlMs |-> Undefined, memoryPressureLimit |-> Undefined,
                        streamCompleted |-> FALSE]
         IN  [m2 EXCEPT !.host = Append(@, [id |-> id, type |-> "timeout", armed |-> TRUE,
                                            calls |-> 0]),
                        !.timers = Put(@, id, handle)]

\* timer-manager.ts:123-128, 168: the id setTimeout returns
SetTimeoutResult(m, name, shutting) ==
    IF ~Accepts(shutting) THEN "" ELSE IdFor(m, name, "timeout_")

\* variant of ShouldTerminateTimer: stream completion does not terminate
ShouldTerminateTimerNoStream(handle, t, p) ==
    \/ Truthy(handle.maxExecutions) /\ handle.executionCount >= handle.maxExecutions
    \/ Truthy(handle.ttlMs) /\ (t - handle.created) >= handle.ttlMs
    \/ Truthy(handle.memoryPressureLimit) /\ p > handle.memoryPressureLimit

\* variant of ShouldTerminateTimer: the execution count compared with > instead of >=
ShouldTerminateTimerLate(handle, t, p) ==
    \/ Truthy(handle.maxExecutions) /\ handle.executionCount > handle.maxExecutions
    \/ Truthy(handle.ttlMs) /\ (t - handle.created) >= handle.ttlMs
    \/ Truthy(handle.memoryPressureLimit) /\ p > handle.memoryPressureLimit
    \/ handle.streamCompleted

\* timer-manager.ts:396-420 shouldTerminateTimer(handle), at time t with pressure sample p
ShouldTerminateTimer(handle, t, p) ==
    \/ Truthy(handle.maxExecutions) /\ handle.executionCount >= handle.maxExecutions
    \/ Truthy(handle.ttlMs) /\ (t - handle.created) >= handle.ttlMs
    \/ Truthy(handle.memoryPressureLimit) /\ p > handle.memoryPressureLimit
    \/ handle.streamCompleted

\* timer-manager.ts:425-449 getTerminationReason(handle), at time t with pressure sample p
GetTerminationReason(handle, t, p) ==
    IF Truthy(handle.maxExecutions) /\ handle.executionCount >= handle.maxExecutions
    THEN "max executions reached"
    ELSE IF Truthy(handle.ttlMs) /\ (t - handle.created) >= handle.ttlMs
    THEN "TTL expired"
    ELSE IF Truthy(handle.memoryPressureLimit) /\ p > handle.memoryPressureLimit
    THEN "memory pressure limit"
    ELSE IF handle.streamCompleted
    THEN "stream completed"
    ELSE "unknown"

\* the pressure samples that can matter to handle: getCurrentMemoryPressure() is only
\* called when memoryPressureLimit is truthy (timer-manager.ts:410, 437-438), and its
\* result is only compared with the limit: one sample at the limit, one above it
PressureSamples(handle) ==
    IF Truthy(handle.memoryPressureLimit)
    THEN {handle.memoryPressureLimit, handle.memoryPressureLimit + 1}
    ELSE {0}

\* the options a handle was registered with (timer-manager.ts:104-106)
OptionsOf(handle) ==
    [maxExecutions |-> handle.maxExecutions, ttlMs |-> handle.ttlMs,
     memoryPressureLimit |-> handle.memoryPressureLimit]

\* what the callback of the task registered under id does to the manager: it returns,
\* throws (caught at lines 83-85 / 144-146), registers a periodic task under its own
\* id again with the same options, or cancels its own id
RunCallback(m, id, opts, behaviour, t, shutting) ==
    CASE behaviour = "reregister" -> SetIntervalOp(m, id, opts, t, shutting)
      [] behaviour = "cancel" -> ClearTimerOp(m, id)
      [] OTHER -> m

\* a host timer can be created (bound of the model)
CanArm(m) == Len(m.host) < MaxHostTimers

SetManager(m) ==
    /\ timers' = m.timers
    /\ host' = m.host
    /\ nextId' = m.nextId

\* timer-manager.ts:45-117 setInterval called by the application
SetInterval(name, opts) ==
    /\ CanArm(TM)
    /\ SetManager(SetIntervalOp(TM, name, opts, now, isShuttingDown))
    /\ lastReturn' = SetIntervalResult(TM, name, isShuttingDown)
    /\ lastLog' = "none"
    /\ lastError' = FALSE
    /\ UNCHANGED <<isShuttingDown, graceTimers, now, graceElapsed>>
    /\ UNCHANGED notTimerVars

\* timer-manager.ts:122-169 setTimeout called by the application
SetTimeout(name) ==
    /\ CanArm(TM)
    /\ SetManager(SetTimeoutOp(TM, name, now, isShuttingDown))
    /\ lastReturn' = SetTimeoutResult(TM, name, isShuttingDown)
    /\ lastLog' = "none"
    /\ lastError' = FALSE
    /\ UNCHANGED <<isShuttingDown, graceTimers, now, graceElapsed>>
    /\ UNCHANGED notTimerVars

\* timer-manager.ts:174-193 clearTimer called by the application
ClearTimer(id) ==
    /\ SetManager(ClearTimerOp(TM, id))
    /\ lastReturn' = IF ClearTimerResult(TM, id) THEN "true" ELSE "false"
    /\ lastLog' = "none"
    /\ lastError' = FALSE
    /\ UNCHANGED <<isShuttingDown, graceTimers, now, graceElapsed>>
    /\ UNCHANGED notTimerVars

\* variant of ClearAllOp: the registry is emptied and the host timers are left armed
ClearAllOpLeavingArmed(m) == [m EXCEPT !.timers = << >>]

\* timer-manager.ts:198-229 clearAll(reason): the state it leaves
ClearAllOp(m) ==
    [m EXCEPT !.host = [k \in DOMAIN m.host |->
                          IF \E id \in DOMAIN m.timers : m.timers[id].timer = k
                          THEN [m.host[k] EXCEPT !.armed = FALSE] ELSE m.host[k]],
              !.timers = << >>]

\* timer-manager.ts:198-229 clearAll called by the application
ClearAll ==
    /\ DOMAIN timers # {}
    /\ SetManager(ClearAllOp(TM))
    /\ lastReturn' = "void"
    /\ lastLog' = "none"
    /\ lastError' = FALSE
    /\ UNCHANGED <<isShuttingDown, graceTimers, now, graceElapsed>>
    /\ UNCHANGED notTimerVars

\* timer-manager.ts:308-319 prepareShutdown()
PrepareShutdown ==
    /\ graceTimers < MaxShutdownCalls
    /\ isShuttingDown' = TRUE
    /\ graceTimers' = graceTimers + 1
    /\ lastReturn' = "void"
    /\ lastLog' = "none"
    /\ lastError' = FALSE
    /\ UNCHANGED <<timers, host, nextId, now, graceElapsed>>
    /\ UNCHANGED notTimerVars

\* timer-manager.ts:313-318 the grace timer of prepareShutdown fires
GraceTimerFires ==
    /\ graceTimers > 0
    /\ graceTimers' = graceTimers - 1
    /\ SetManager(IF DOMAIN timers # {} THEN ClearAllOp(TM) ELSE TM)
    /\ graceElapsed' = TRUE
    /\ lastReturn' = "none"
    /\ lastLog' = "none"
    /\ lastError' = FALSE
    /\ UNCHANGED <<isShuttingDown, now>>
    /\ UNCHANGED notTimerVars

\* timer-manager.ts:466-477 markStreamCompleted(timerId)
MarkStreamCompleted(id) ==
    /\ timers' = IF id \in DOMAIN timers
                 THEN [timers EXCEPT ![id].streamCompleted = TRUE] ELSE timers
    /\ lastReturn' = IF id \in DOMAIN timers THEN "true" ELSE "false"
    /\ lastLog' = "none"
    /\ lastError' = FALSE
    /\ UNCHANGED <<host, nextId, isShuttingDown, graceTimers, now, graceElapsed>>
    /\ UNCHANGED notTimerVars

\* timer-manager.ts:482-504 updateTimerLifecycle(timerId, updates): the state it leaves
UpdateTimerLifecycleOp(m, id, updates) ==
    IF id \notin DOMAIN m.timers THEN m
    ELSE [m EXCEPT !.timers[id] =
            [@ EXCEPT !.maxExecutions =
                         IF updates.maxExecutions # Undefined THEN updates.maxExecutions ELSE @,
                      !.ttlMs = IF updates.ttlMs # Undefined THEN updates.ttlMs ELSE @,
                      !.memoryPressureLimit =
                         IF updates.memoryPressureLimit # Undefined
                         THEN updates.memoryPressureLimit ELSE @]]

\* timer-manager.ts:490-491, 503 updateTimerLifecycle(timerId, updates): the value it returns
UpdateTimerLifecycleResult(m, id) == id \in DOMAIN m.timers

\* timer-manager.ts:482-504 updateTimerLifecycle called by the application
UpdateTimerLifecycle(id, updates) ==
    /\ SetManager(UpdateTimerLifecycleOp(TM, id, updates))
    /\ lastReturn' = IF UpdateTimerLifecycleResult(TM, id) THEN "true" ELSE "false"
    /\ lastLog' = "none"
    /\ lastError' = FALSE
    /\ UNCHANGED <<isShuttingDown, graceTimers, now, graceElapsed>>
    /\ UNCHANGED notTimerVars

\* timer-manager.ts:83-85 / 144-146: the catch block ran and logged "callback error"
Caught(behaviour) == behaviour = "throw"

\* variant of CatchError: a callback's exception ends every timer
CatchErrorClearing(m, behaviour) == IF behaviour = "throw" THEN ClearAllOp(m) ELSE m

\* timer-manager.ts:81-85 / 142-146 try { callback() } catch (error) { console.error }:
\* the manager's state after the try statement is the one the callback left
CatchError(m, behaviour) == m

\* variant of Expire: the fired deferred task stays in the registry
ExpireKeeping(m, id, k) == [m EXCEPT !.host[k].calls = @ + 1]

\* timer-manager.ts:138-141 the fired deferred task is counted and deleted from the
\* registry before its callback runs
Expire(m, id, k) == [m EXCEPT !.timers = Remove(m.timers, id), !.host[k].calls = @ + 1]

\* timer-manager.ts:67-92 wrappedCallback of the periodic task armed as host timer k
IntervalFires(k, behaviour) ==
    /\ k \in DOMAIN host
    /\ host[k].armed
    /\ host[k].type = "interval"
    /\ host[k].calls < MaxFires
    /\ behaviour = "reregister" => CanArm(TM)
    /\ LET id == host[k].id IN
       IF id \notin DOMAIN timers
       THEN lastLog' = "none" /\ lastError' = FALSE /\ UNCHANGED <<timers, host, nextId>>
       ELSE LET handle == timers[id] IN
            \E p1 \in PressureSamples(handle) :
              IF ShouldTerminateTimer(handle, now, p1)
              THEN /\ \E p2 \in PressureSamples(handle) : lastLog' = GetTerminationReason(handle, now, p2)
                   /\ lastError' = FALSE
                   /\ SetManager(ClearTimerOp(TM, id))
              ELSE LET ran == [handle EXCEPT !.executionCount = @ + 1]
                       m1 == [TM EXCEPT !.timers[id] = ran, !.host[k].calls = @ + 1]
                       m2 == CatchError(RunCallback(m1, id, OptionsOf(ran), behaviour, now,
                                                    isShuttingDown), behaviour)
                   IN  /\ lastError' = Caught(behaviour)
                       /\ \E p3 \in PressureSamples(ran) :
                            IF ShouldTerminateTimer(ran, now, p3)
                            THEN /\ \E p4 \in PressureSamples(ran) :
                                      lastLog' = GetTerminationReason(ran, now, p4)
                                 /\ SetManager(ClearTimerOp(m2, id))
                            ELSE /\ lastLog' = "none"
                                 /\ SetManager(m2)
    /\ lastReturn' = "none"
    /\ UNCHANGED <<isShuttingDown, graceTimers, now, graceElapsed>>
    /\ UNCHANGED notTimerVars

\* timer-manager.ts:135-148 wrappedCallback of the deferred task armed as host timer k
TimeoutFires(k, behaviour) ==
    /\ k \in DOMAIN host
    /\ host[k].armed
    /\ host[k].type = "timeout"
    /\ behaviour = "reregister" => CanArm(TM)
    /\ LET id == host[k].id
           fired == [TM EXCEPT !.host[k].armed = FALSE]
       IN  IF id \notin DOMAIN timers
           THEN SetManager(fired) /\ lastError' = FALSE
           ELSE /\ SetManager(CatchError(RunCallback(Expire(fired, id, k), id, NoOptions,
                                                     behaviour, now, isShuttingDown),
                                         behaviour))
                /\ lastError' = Caught(behaviour)
    /\ lastReturn' = "none"
    /\ lastLog' = "none"
    /\ UNCHANGED <<isShuttingDown, graceTimers, now, graceElapsed>>
    /\ UNCHANGED notTimerVars

\* timer-manager.ts:286 longRunningThreshold = 5 * 60 * 1000 ms; the clock of the model
\* counts units of five minutes
LongRunningThreshold == 1

\* timer-manager.ts:287 highExecutionThreshold
HighExecutionThreshold == 1000

\* timer-manager.ts:343 the registry size above which every interval is cleared
TimerCountThreshold == 10

\* timer-manager.ts:279-303 findProblematicTimers(): the ids of longRunning and of
\* highExecution together
FindProblematicTimers(m, t) ==
    {id \in DOMAIN m.timers :
        \/ (t - m.timers[id].created) > LongRunningThreshold
        \/ m.timers[id].executionCount > HighExecutionThreshold}

\* clearTimer(id) for each id of ids
ClearTimers(m, ids) ==
    [m EXCEPT !.host = [k \in DOMAIN m.host |->
                          IF \E id \in ids \cap DOMAIN m.timers : m.timers[id].timer = k
                          THEN [m.host[k] EXCEPT !.armed = FALSE] ELSE m.host[k]],
              !.timers = [id \in DOMAIN m.timers \ ids |-> m.timers[id]]]

\* variant of EmergencyCleanupOp: only the problematic timers are cleared
EmergencyCleanupOpProblematicOnly(m, t) == ClearTimers(m, FindProblematicTimers(m, t))

\* timer-manager.ts:324-353 emergencyCleanup(): the state it leaves
EmergencyCleanupOp(m, t) ==
    LET m1 == ClearTimers(m, FindProblematicTimers(m, t))
        intervalIds == {id \in DOMAIN m1.timers : m1.timers[id].type = "interval"}
    IN  IF Cardinality(DOMAIN m1.timers) > TimerCountThreshold
        THEN ClearTimers(m1, intervalIds)
        ELSE m1

\* timer-manager.ts:324-353 emergencyCleanup() called by the application
EmergencyCleanup ==
    /\ SetManager(EmergencyCleanupOp(TM, now))
    /\ lastReturn' = "void"
    /\ lastLog' = "none"
    /\ lastError' = FALSE
    /\ UNCHANGED <<isShuttingDown, graceTimers, now, graceElapsed>>
    /\ UNCHANGED notTimerVars

\* the clock advances
Advance ==
    /\ now < MaxTime
    /\ now' = now + 1
    /\ lastReturn' = "none"
    /\ lastLog' = "none"
    /\ lastError' = FALSE
    /\ UNCHANGED <<timers, host, nextId, isShuttingDown, graceTimers, graceElapsed>>
    /\ UNCHANGED notTimerVars

TimerNext ==
    \/ \E name \in Names \cup {""}, opts \in RunLimitOptions : SetInterval(name, opts)
    \/ \E name \in Names \cup {""} : SetTimeout(name)
    \/ \E id \in Names : ClearTimer(id)
    \/ ClearAll
    \/ PrepareShutdown
    \/ GraceTimerFires
    \/ \E k \in 1..MaxHostTimers, behaviour \in CallbackBehaviours :
          IntervalFires(k, behaviour)
    \/ \E k \in 1..MaxHostTimers, behaviour \in CallbackBehaviours :
          TimeoutFires(k, behaviour)

\* one periodic task "a" under every combination of options, with the clock running
PolicyNext ==
    \/ \E opts \in AllOptions : SetInterval("a", opts)
    \/ MarkStreamCompleted("a")
    \/ \E k \in 1..MaxHostTimers, behaviour \in {"return", "throw"} :
          IntervalFires(k, behaviour)
    \/ Advance

\* periodic and deferred tasks without conditions, the clock running, and the
\* emergency cleanup
DrainNext ==
    \/ \E name \in Names \cup {""} : SetInterval(name, NoOptions)
    \/ \E name \in Names \cup {""} : SetTimeout(name)
    \/ \E k \in 1..MaxHostTimers : IntervalFires(k, "return")
    \/ \E k \in 1..MaxHostTimers : TimeoutFires(k, "return")
    \/ EmergencyCleanup
    \/ Advance

\* one periodic task "a" registered with a run limit or without conditions, its
\* lifecycle fields updated at run time, with the clock running
LifecycleNext ==
    \/ \E opts \in RunLimitOptions : SetInterval("a", opts)
    \/ \E updates \in AllOptions : UpdateTimerLifecycle("a", updates)
    \/ \E k \in 1..MaxHostTimers, behaviour \in {"return", "throw"} :
          IntervalFires(k, behaviour)
    \/ Advance

\* every way a task enters and leaves the registry: registration and replacement,
\* cancel, clearAll, shutdown, firing and auto-termination, and the emergency cleanup,
\* with the clock running
RegistryNext ==
    \/ \E opts \in RunLimitOptions : SetInterval("a", opts)
    \/ \E name \in {"a", ""} : SetTimeout(name)
    \/ ClearTimer("a")
    \/ ClearAll
    \/ PrepareShutdown
    \/ GraceTimerFires
    \/ \E k \in 1..MaxHostTimers, behaviour \in CallbackBehaviours :
          IntervalFires(k, behaviour)
    \/ \E k \in 1..MaxHostTimers, behaviour \in CallbackBehaviours :
          TimeoutFires(k, behaviour)
    \/ EmergencyCleanup
    \/ Advance

\* the registry after n more unnamed tasks of one type were registered at time t
\* (timer-manager.ts:45-117, 122-169) and, for periodic ones, have run count times each
\* (lines 78-79)
RECURSIVE AddTasks(_, _, _, _, _)
AddTasks(m, n, type, t, count) ==
    IF n = 0 THEN m
    ELSE LET id == IdFor(m, "", IF type = "interval" THEN "interval_" ELSE "timeout_")
             m1 == IF type = "interval" THEN SetIntervalOp(m, "", NoOptions, t, FALSE)
                   ELSE SetTimeoutOp(m, "", t, FALSE)
         IN  AddTasks([m1 EXCEPT !.timers[id].executionCount = count,
                                 !.host[Len(m1.host)].calls = count],
                      n - 1, type, t, count)

(***************************************************************************)
(*                        R E S O U R C E   P O O L                        *)
(***************************************************************************)
\* the acquire calls, numbered in arrival order
Acquirers == 1..MaxAcquires

PoolInit ==
    /\ poolResources = << >>
    /\ inUse = {}
    /\ waiting = << >>
    /\ maxSize = Undefined
    /\ created = 0
    /\ acquireState = [a \in Acquirers |-> "idle"]
    /\ held = [a \in Acquirers |-> 0]
    /\ disposals = 0

\* part_001:12-20 new ResourcePool(createResource, size, destroyResource)
PoolConstruct(size) ==
    /\ maxSize = Undefined
    /\ maxSize' = size
    /\ UNCHANGED <<poolResources, inUse, waiting, created, acquireState, held, disposals>>
    /\ UNCHANGED notPoolVars

\* part_001:24 this.resources.find(r => !this.inUse.has(r)): the position of the first
\* resource that is not in use, 0 when there is none
FindAvailable(rs, used) ==
    IF \E i \in DOMAIN rs : rs[i] \notin used
    THEN CHOOSE i \in DOMAIN rs : rs[i] \notin used /\ \A j \in 1..(i - 1) : rs[j] \in used
    ELSE 0

\* part_001:31 this.resources.length < this.maxSize
CanCreate(size, limit) == size < limit

\* part_001:22-41 acquire(); createResource() returns a new object at each call
Acquire(a) ==
    /\ maxSize # Undefined
    /\ acquireState[a] = "idle"
    /\ \A b \in Acquirers : b < a => acquireState[b] # "idle"
    /\ LET available == FindAvailable(poolResources, inUse) IN
       IF available # 0
       THEN /\ inUse' = inUse \cup {poolResources[available]}
            /\ held' = [held EXCEPT ![a] = poolResources[available]]
            /\ acquireState' = [acquireState EXCEPT ![a] = "holding"]
            /\ UNCHANGED <<poolResources, waiting, created>>
       ELSE IF CanCreate(Len(poolResources), maxSize)
       THEN /\ created' = created + 1
            /\ poolResources' = Append(poolResources, created + 1)
            /\ inUse' = inUse \cup {created + 1}
            /\ held' = [held EXCEPT ![a] = created + 1]
            /\ acquireState' = [acquireState EXCEPT ![a] = "holding"]
            /\ UNCHANGED waiting
       ELSE /\ waiting' = Append(waiting, a)
            /\ acquireState' = [acquireState EXCEPT ![a] = "waiting"]
            /\ UNCHANGED <<poolResources, inUse, created, held>>
    /\ UNCHANGED <<maxSize, disposals>>
    /\ UNCHANGED notPoolVars

\* part_001:43-51 release(resource), called once by the caller whose acquire() was
\* resolved with that resource
PoolRelease(a) ==
    /\ acquireState[a] = "holding"
    /\ IF Len(waiting) > 0
       THEN /\ waiting' = Tail(waiting)
            /\ inUse' = (inUse \ {held[a]}) \cup {held[a]}
            /\ held' = [held EXCEPT ![Head(waiting)] = held[a]]
            /\ acquireState' = [acquireState EXCEPT ![a] = "released",
                                                    ![Head(waiting)] = "holding"]
       ELSE /\ inUse' = inUse \ {held[a]}
            /\ acquireState' = [acquireState EXCEPT ![a] = "released"]
            /\ UNCHANGED <<waiting, held>>
    /\ UNCHANGED <<poolResources, maxSize, created, disposals>>
    /\ UNCHANGED notPoolVars

\* part_001:53-62 dispose(): the promises of the waiting calls are dropped unsettled,
\* and the callers that hold a resource keep it
PoolDispose ==
    /\ maxSize # Undefined
    /\ disposals < MaxDisposals
    /\ disposals' = disposals + 1
    /\ poolResources' = << >>
    /\ inUse' = {}
    /\ waiting' = << >>
    /\ UNCHANGED <<maxSize, created, acquireState, held>>
    /\ UNCHANGED notPoolVars

PoolNext ==
    \/ \E size \in 1..MaxPoolSize : PoolConstruct(size)
    \/ \E a \in Acquirers : Acquire(a)
    \/ \E a \in Acquirers : PoolRelease(a)
    \/ PoolDispose

(***************************************************************************)
(*            R E S O U R C E   L I F E C Y C L E   M A N A G E R          *)
(***************************************************************************)
\* the ids of the resources passed to register
ResourceIds == {"r1", "r2", "r3", "r4"}

\* the order in which the application first uses the ids
IdNumber == [id \in ResourceIds |-> CHOOSE n \in 1..4 : id = "r" \o ToString(n)]

\* the NativeResource objects, in the order they are passed to register
Instances == 1..MaxRegistrations

\* the position of id in the Map, 0 when it is not tracked
IndexOf(rs, id) ==
    IF \E i \in DOMAIN rs : rs[i].id = id
    THEN CHOOSE i \in DOMAIN rs : rs[i].id = id
    ELSE 0

\* Map.has(id)
Tracked(rs, id) == IndexOf(rs, id) # 0

\* Map.delete(id)
Delete(rs, id) == SelectSeq(rs, LAMBDA e : e.id # id)

\* Map.set(id, info): an existing key keeps its position
MapSet(rs, info) ==
    IF Tracked(rs, info.id) THEN [rs EXCEPT ![IndexOf(rs, info.id)] = info]
    ELSE Append(rs, info)

\* the ids of a sequence of entries
IdsOf(rs) == [i \in DOMAIN rs |-> rs[i].id]

\* part_003:180 Array.prototype.sort by lastAccessed ascending (a stable sort)
RECURSIVE SortByLastAccessed(_)
SortByLastAccessed(rs) ==
    IF rs = << >> THEN << >>
    ELSE LET first == CHOOSE i \in DOMAIN rs :
                        \A j \in DOMAIN rs :
                           \/ rs[i].lastAccessed < rs[j].lastAccessed
                           \/ (rs[i].lastAccessed = rs[j].lastAccessed /\ i <= j)
         IN  <<rs[first]>>
             \o SortByLastAccessed(SubSeq(rs, 1, first - 1) \o SubSeq(rs, first + 1, Len(rs)))

\* part_003:182 Math.floor(resourceEntries.length * 0.25)
CleanupCount(n) == n \div 4

\* the resource manager's mutable state, threaded through nested calls
RM == [resources |-> resources, cleanupCalls |-> cleanupCalls, jobs |-> jobs]

\* the NativeResource objects tracked under ids, 0 for an untracked id
Selected(rs, ids) ==
    [i \in DOMAIN ids |-> IF Tracked(rs, ids[i]) THEN rs[IndexOf(rs, ids[i])].inst ELSE 0]

\* the frame of a call that loops over ids with `await this.unregister(id)`: which call
\* it is, the ids it selected (toCleanup, resourceIds) and, as history, the objects
\* they denoted
Frame(kind, rs, ids) == [kind |-> kind, selected |-> ids, objects |-> Selected(rs, ids)]

\* the frame of dispose(), with the number of register calls made before it began
DisposeFrame(rs, registered) ==
    [kind |-> "dispose", selected |-> IdsOf(rs), objects |-> Selected(rs, IdsOf(rs)),
     began |-> registered]

\* part_003:84-91 unregister(resourceId) up to its first await, called from a loop that
\* will go on with the ids of rest: an untracked id returns at once, a tracked one has
\* its cleanup() called and the call suspended until that promise settles
RECURSIVE StartLoop(_, _, _)
StartLoop(m, ids, frame) ==
    IF ids = << >> THEN m
    ELSE IF ~Tracked(m.resources, Head(ids)) THEN StartLoop(m, Tail(ids), frame)
    ELSE LET inst == m.resources[IndexOf(m.resources, Head(ids))].inst
         IN  [m EXCEPT !.cleanupCalls[inst] = @ + 1,
                       !.jobs = Append(@, [frame |-> frame, id |-> Head(ids),
                                           rest |-> Tail(ids)])]

\* part_003:175-190 performEmergencyCleanup() up to its first await
PerformEmergencyCleanup(m) ==
    LET resourceEntries == SortByLastAccessed(m.resources)
        cleanupCount == CleanupCount(Len(resourceEntries))
        toCleanup == SubSeq(resourceEntries, 1, cleanupCount)
    IN  StartLoop(m, IdsOf(toCleanup),
                  Frame("emergency", m.resources, IdsOf(toCleanup)))

\* part_003:73 the capacity check of register
OverLimit(size, limit) == size > limit

\* part_003:56-79 register(resource): the state it leaves when it returns
RegisterOp(m, id, inst, t) ==
    LET m1 == IF Tracked(m.resources, id)
              THEN StartLoop(m, <<id>>, Frame("replace", m.resources, <<id>>))
              ELSE m
        info == [id |-> id, inst |-> inst, createdAt |-> t, lastAccessed |-> t,
                 accessCount |-> 1]
        m2 == [m1 EXCEPT !.resources = MapSet(@, info)]
    IN  IF OverLimit(Len(m2.resources), maxResources) THEN PerformEmergencyCleanup(m2)
        ELSE m2

SetResourceManager(m) ==
    /\ resources' = m.resources
    /\ cleanupCalls' = m.cleanupCalls
    /\ jobs' = m.jobs

ResourceInit ==
    /\ resources = << >>
    /\ maxResources = Undefined
    /\ maxIdleTime = Undefined
    /\ cleanupInterval = FALSE
    /\ clock = 0
    /\ instances = 0
    /\ cleanupCalls = [i \in Instances |-> 0]
    /\ jobs = << >>
    /\ idsUsed = 0

\* part_003:39-51 new ResourceLifecycleManager({maxResources: limit, maxIdleTime: IdleTime})
\* with a positive limit; the constructor starts the cleanup timer
Construct(limit) ==
    /\ maxResources = Undefined
    /\ maxResources' = limit
    /\ maxIdleTime' = IdleTime
    /\ cleanupInterval' = TRUE
    /\ UNCHANGED <<resources, clock, instances, cleanupCalls, jobs, idsUsed>>
    /\ UNCHANGED notResourceVars

\* part_003:56-79 register(resource) called by the application with a new object
Register(id) ==
    /\ maxResources # Undefined
    /\ instances < MaxRegistrations
    /\ IdNumber[id] <= idsUsed + 1
    /\ idsUsed' = Max(idsUsed, IdNumber[id])
    /\ instances' = instances + 1
    /\ SetResourceManager(RegisterOp(RM, id, instances + 1, clock))
    /\ UNCHANGED <<maxResources, maxIdleTime, cleanupInterval, clock>>
    /\ UNCHANGED notResourceVars

\* the suspended calls that the application or the cleanup timer started
Started(js) == SelectSeq(js, LAMBDA job : job.frame.kind \in {"unregister", "routine", "dispose"})

\* part_003:84-100 unregister(resourceId) called by the application
Unregister(id) ==
    /\ maxResources # Undefined
    /\ Len(jobs) < MaxJobs
    /\ UNCHANGED <<maxResources, maxIdleTime, cleanupInterval, clock, instances, idsUsed>>
    /\ SetResourceManager(StartLoop(RM, <<id>>, Frame("unregister", resources, <<id>>)))
    /\ UNCHANGED notResourceVars

\* how the cleanup() promise of a resource settles
Outcomes == {"fulfilled", "rejected"}

\* variant of AfterCleanup: a resource whose cleanup failed stays tracked
AfterCleanupKeeping(rs, id, outcome) == IF outcome = "rejected" THEN rs ELSE Delete(rs, id)

\* part_003:91-98 the table after `await info.resource.cleanup()`: line 92 after a
\* fulfilled promise, line 97 in the catch block after a rejected one
AfterCleanup(rs, id, outcome) == Delete(rs, id)

\* part_003:90-99 how the promise of unregister settles: the catch block has no throw
UnregisterResult(outcome) == "resolved"

\* part_003:91-99 the cleanup() promise a suspended unregister awaits settles, fulfilled
\* or rejected: the entry under that id is deleted, and the loop that awaited the call
\* goes on with its next id when the call resolved
CleanupSettles(j, outcome) ==
    /\ j \in DOMAIN jobs
    /\ UNCHANGED <<maxResources, maxIdleTime, cleanupInterval, clock, instances, idsUsed>>
    /\ LET job == jobs[j]
           others == SubSeq(jobs, 1, j - 1) \o SubSeq(jobs, j + 1, Len(jobs))
           m1 == [RM EXCEPT !.resources = AfterCleanup(@, job.id, outcome), !.jobs = others]
       IN  SetResourceManager(IF UnregisterResult(outcome) = "resolved"
                              THEN StartLoop(m1, job.rest, job.frame)
                              ELSE m1)
    /\ UNCHANGED notResourceVars

\* the access calls the tracked entries have counted (accessCount starts at 1)
RECURSIVE AccessesCounted(_)
AccessesCounted(rs) ==
    IF rs = << >> THEN 0 ELSE (Head(rs).accessCount - 1) + AccessesCounted(Tail(rs))

\* variant of AccessOp: an access refreshes lastAccessed of every tracked resource
AccessOpTouchingAll(rs, id, t) ==
    IF ~Tracked(rs, id) THEN rs
    ELSE [i \in DOMAIN rs |->
            IF rs[i].id = id THEN [rs[i] EXCEPT !.lastAccessed = t, !.accessCount = @ + 1]
            ELSE [rs[i] EXCEPT !.lastAccessed = t]]

\* part_003:105-116 access(resourceId): the table it leaves
AccessOp(rs, id, t) ==
    IF ~Tracked(rs, id) THEN rs
    ELSE [rs EXCEPT ![IndexOf(rs, id)] = [@ EXCEPT !.lastAccessed = t, !.accessCount = @ + 1]]

\* part_003:105-116 access(resourceId) called by the application
Access(id) ==
    /\ maxResources # Undefined
    /\ AccessesCounted(resources) < MaxAccessCount
    /\ resources' = AccessOp(resources, id, clock)
    /\ UNCHANGED <<maxResources, maxIdleTime, cleanupInterval, clock, instances, cleanupCalls,
                   jobs, idsUsed>>
    /\ UNCHANGED notResourceVars

\* part_003:153-159 the ids whose idle time exceeds maxIdleTime, in Map order
IdleIds(rs, t, limit) == IdsOf(SelectSeq(rs, LAMBDA e : (t - e.lastAccessed) > limit))

\* part_003:169 the number performRoutineCleanup() returns: toCleanup.length
PerformRoutineCleanupResult(frame) == Len(frame.selected)

\* the suspended call jobs[j] is the last unregister its loop awaits: when it settles
\* the loop ends and the call that runs the loop (sweep, eviction, dispose) completes
Completes(js, js2, j, kind) ==
    /\ j \in DOMAIN js
    /\ js[j].frame.kind = kind
    /\ Len(js2) = Len(js) - 1

\* part_003:150-170, 216-228 the cleanup timer fires: performRoutineCleanup() up to its
\* first await
RoutineCleanup ==
    /\ cleanupInterval
    /\ Len(Started(jobs)) < MaxJobs
    /\ SetResourceManager(StartLoop(RM, IdleIds(resources, clock, maxIdleTime),
                                     Frame("routine", resources,
                                           IdleIds(resources, clock, maxIdleTime))))
    /\ UNCHANGED <<maxResources, maxIdleTime, cleanupInterval, clock, instances, idsUsed>>
    /\ UNCHANGED notResourceVars

\* part_003:195-211 dispose() up to its first await
Dispose ==
    /\ maxResources # Undefined
    /\ Len(Started(jobs)) < MaxJobs
    /\ cleanupInterval' = FALSE
    /\ SetResourceManager(StartLoop(RM, IdsOf(resources), DisposeFrame(resources, instances)))
    /\ UNCHANGED <<maxResources, maxIdleTime, clock, instances, idsUsed>>
    /\ UNCHANGED notResourceVars

\* the clock advances
ClockTicks ==
    /\ maxResources # Undefined
    /\ clock < MaxClock
    /\ clock' = clock + 1
    /\ UNCHANGED <<resources, maxResources, maxIdleTime, cleanupInterval, instances, cleanupCalls,
                   jobs, idsUsed>>
    /\ UNCHANGED notResourceVars

\* the positions a suspended call can have in jobs: the calls the application or the
\* cleanup timer started and those the register calls started
JobSlots == 1..(MaxJobs + MaxRegistrations)

\* part_003:121-145 getStats().totalResources
TotalResources == Len(resources)

\* registration, removal, the idle sweep and dispose, with the clock running
ResourceNext ==
    \/ \E limit \in 1..MaxCapacity : Construct(limit)
    \/ \E id \in ResourceIds : Register(id)
    \/ \E id \in ResourceIds : Unregister(id)
    \/ \E j \in JobSlots, outcome \in Outcomes : CleanupSettles(j, outcome)
    \/ RoutineCleanup
    \/ Dispose
    \/ ClockTicks

\* the ids used in runs about unregister: two resources and an id never registered
UnregisterIds == {"r1", "r2"}

\* registration and removal only, under the largest capacity
UnregisterNext ==
    \/ Construct(MaxCapacity)
    \/ \E id \in UnregisterIds : Register(id)
    \/ \E id \in UnregisterIds \cup {"r4"} : Unregister(id)
    \/ \E j \in JobSlots, outcome \in Outcomes : CleanupSettles(j, outcome)

\* registration and access under the largest capacity, with the clock running
AccessNext ==
    \/ Construct(MaxCapacity)
    \/ \E id \in ResourceIds : Register(id)
    \/ \E id \in ResourceIds : Access(id)
    \/ ClockTicks

\* the registries the emergency cleanup is called on, at time MaxTime: periodic and
\* deferred tasks registered at time 0, then, registered one threshold ago, periodic
\* tasks that have run more often than the execution threshold, periodic tasks that
\* have run exactly that often, and deferred tasks; up to MaxTasks tasks together
CleanupInit ==
    /\ MutexInit
    /\ ResourceInit
    /\ PoolInit
    /\ isShuttingDown = FALSE
    /\ graceTimers = 0
    /\ now = MaxTime
    /\ lastReturn = "none"
    /\ lastLog = "none"
    /\ lastError = FALSE
    /\ graceElapsed = FALSE
    /\ \E oldPeriodic \in 0..MaxTasks :
       \E oldDeferred \in 0..(MaxTasks - oldPeriodic) :
       \E busy \in 0..(MaxTasks - oldPeriodic - oldDeferred) :
       \E periodic \in 0..(MaxTasks - oldPeriodic - oldDeferred - busy) :
       \E deferred \in 0..(MaxTasks - oldPeriodic - oldDeferred - busy - periodic) :
          LET recent == MaxTime - LongRunningThreshold
              m0 == [timers |-> << >>, host |-> << >>, nextId |-> 1]
              m1 == AddTasks(m0, oldPeriodic, "interval", 0, 0)
              m2 == AddTasks(m1, oldDeferred, "timeout", 0, 0)
              m3 == AddTasks(m2, busy, "interval", recent, HighExecutionThreshold + 1)
              m4 == AddTasks(m3, periodic, "interval", recent, HighExecutionThreshold)
              m5 == AddTasks(m4, deferred, "timeout", recent, 0)
          IN  /\ timers = m5.timers
              /\ host = m5.host
              /\ nextId = m5.nextId

\* the emergency cleanup called on such a registry
CleanupNext == EmergencyCleanup

\* registration, access and the idle sweep under the largest capacity, with the clock
\* running
SweepNext ==
    \/ Construct(MaxCapacity)
    \/ \E id \in UnregisterIds : Register(id)
    \/ \E id \in UnregisterIds : Access(id)
    \/ RoutineCleanup
    \/ \E j \in JobSlots, outcome \in Outcomes : CleanupSettles(j, outcome)
    \/ ClockTicks

vars == <<mutexVars, timerVars, resourceVars, poolVars>>

Init == MutexInit /\ TimerInit /\ ResourceInit /\ PoolInit

MutexNext ==
    \/ \E c \in Calls, kind \in {"lock", "withLock"}, tagged \in BOOLEAN :
          Lock(c, kind, IF tagged THEN c ELSE Undefined)
    \/ \E c \in Calls : Timeout(c)
    \/ RunImmediate
    \/ \E c \in Calls : Release(c)
    \/ \E c \in Calls : ReleaseAgain(c)
    \/ \E c \in Calls : FnStart(c)
    \/ \E c \in Calls, outcome \in {"returned", "threw"} : FnExit(c, outcome)
    \/ ResetStats

\* the lock used by callers that call each release function once
MutexOnceNext ==
    \/ \E c \in Calls, kind \in {"lock", "withLock"}, tagged \in BOOLEAN :
          Lock(c, kind, IF tagged THEN c ELSE Undefined)
    \/ \E c \in Calls : Timeout(c)
    \/ RunImmediate
    \/ \E c \in Calls : Release(c)
    \/ \E c \in Calls : FnStart(c)
    \/ \E c \in Calls, outcome \in {"returned", "threw"} : FnExit(c, outcome)

MutexSpec == Init /\ [][MutexNext]_vars

\* the event loop runs every setImmediate callback and fires every timer that stays
\* armed, withLock goes on after its await and its function ends, and every caller
\* that was granted the lock calls its release function
MutexLiveSpec ==
    /\ Init
    /\ [][MutexOnceNext]_vars
    /\ WF_vars(RunImmediate)
    /\ \A c \in Calls :
          /\ WF_vars(Timeout(c))
          /\ WF_vars(Release(c))
          /\ WF_vars(FnStart(c))
          /\ WF_vars(\E outcome \in {"returned", "threw"} : FnExit(c, outcome))

TimerSpec == Init /\ [][TimerNext]_vars

PolicySpec == Init /\ [][PolicyNext]_vars

DrainSpec == Init /\ [][DrainNext]_vars

LifecycleSpec == Init /\ [][LifecycleNext]_vars

RegistrySpec == Init /\ [][RegistryNext]_vars

CleanupSpec == CleanupInit /\ [][CleanupNext]_vars

ResourceSpec == Init /\ [][ResourceNext]_vars

UnregisterSpec == Init /\ [][UnregisterNext]_vars

AccessSpec == Init /\ [][AccessNext]_vars

SweepSpec == Init /\ [][SweepNext]_vars

PoolSpec == Init /\ [][PoolNext]_vars

Next ==
    \/ MutexNext
    \/ MutexOnceNext
    \/ TimerNext
    \/ PolicyNext
    \/ DrainNext
    \/ LifecycleNext
    \/ RegistryNext
    \/ CleanupNext
    \/ ResourceNext
    \/ UnregisterNext
    \/ AccessNext
    \/ SweepNext
    \/ PoolNext

Spec == Init /\ [][Next]_vars

(***************************************************************************)
(*                     P R O P E R T I E S :  M U T E X                    *)
(***************************************************************************)
\* every call made so far is a withLock call
OnlyWithLock == \A c \in Calls : callState[c] # "idle" => callKind[c] = "withLock"

\* the calls whose supplied function has started and not yet completed
InFn == {c \in Calls : callState[c] = "infn"}

\* the queued calls that are still waiting (not granted, not timed out), in queue order
Waiting(q, st) == SelectSeq(q, LAMBDA x : st[x] = "pending")

\* no release function has been called more than once
ReleasedOnce == \A c \in Calls : releaseCalls[c] <= 1

\* C1: when every call on the lock is a withLock call, at most one supplied function
\* is between its start and its completion at any time.
C1_MutualExclusion == OnlyWithLock => Cardinality(InFn) <= 1

\* C1 witness: one withLock call has completed and released, a later one is running
\* its function, and a third is waiting for the lock.
C1_Witness ==
    /\ OnlyWithLock
    /\ \E a, b, c \in Calls :
          /\ callState[a] \in {"returned", "threw"}
          /\ callState[b] = "infn"
          /\ callState[c] = "pending"

\* C2: the lock is never marked held (locked, holder tag set) on behalf of a call
\* that has already been rejected for timeout.
C2_NoGrantAfterTimeout ==
    ~(locked /\ owner # Undefined /\ timedOut[owner] /\ callState[owner] = "rejected")

\* C3: a call that found the lock held and is still pending while the lock is held
\* can still be rejected: its timeout timer is armed (the rejection comes from
\* nowhere else), so it does not stay pending forever.
C3_PendingCallCanTimeOut ==
    \A c \in Calls :
        (foundLocked[c] /\ callState[c] = "pending" /\ locked) => timeoutArmed[c]

\* C4: grants are in arrival order: the lock is never granted to a waiting call while
\* a call that arrived earlier is still waiting and has not timed out.
C4_GrantsInArrivalOrder == ~overtaken

\* C5: when the function of a withLock call returns or throws, the lock is released
\* at once, the outcome is propagated, and the lock is handed to the head waiter,
\* if any (release functions being called at most once each).
C5_WithLockReleasesAndHandsOff ==
    [][\A c \in Calls :
          (ReleasedOnce' /\ callKind[c] = "withLock" /\ callState[c] = "infn"
             /\ callState'[c] # "infn")
          => /\ locked' = FALSE
             /\ callState'[c] \in {"returned", "threw"}
             /\ Waiting(queue', callState') # <<>>
                  => /\ immediates' # <<>>
                     /\ immediates'[Len(immediates')] = Head(Waiting(queue', callState'))]_vars

\* C6: a withLock call whose acquire times out is rejected, never invokes the supplied
\* function, and neither the call nor its rejection changes the held flag or the holder.
C6_TimeoutLeavesLockAlone ==
    /\ [](\A c \in Calls : timedOut[c] => (~fnStarted[c] /\ callState[c] = "rejected"))
    /\ [][\A c \in Calls :
            (callKind'[c] = "withLock" /\ callState'[c] \in {"pending", "rejected"}
               /\ callState'[c] # callState[c])
            => (locked' = locked /\ currentHolder' = currentHolder)]_vars

\* C6 witness: a withLock call was rejected for timeout while another call held the lock.
C6_Witness ==
    \E c \in Calls :
        /\ callKind[c] = "withLock"
        /\ timedOut[c]
        /\ callState[c] = "rejected"
        /\ locked
        /\ owner # c

(***************************************************************************)
(*              P R O P E R T I E S :  T I M E R   M A N A G E R           *)
(***************************************************************************)
\* host timer k is the timer of the task registered under its id
Registered(k, tm, h) == h[k].id \in DOMAIN tm /\ tm[h[k].id].timer = k

\* host timer k belongs to a registered periodic task whose only termination
\* condition is a positive maxExecutions
RunLimited(k, tm, h) ==
    /\ Registered(k, tm, h)
    /\ tm[h[k].id].type = "interval"
    /\ Truthy(tm[h[k].id].maxExecutions)
    /\ tm[h[k].id].ttlMs = Undefined
    /\ tm[h[k].id].memoryPressureLimit = Undefined
    /\ ~tm[h[k].id].streamCompleted

\* C7: a periodic task with maxExecutions = N >= 1 and no other condition is invoked
\* once per tick, throwing or not, has been invoked fewer than N times while it is
\* registered, and leaves the registry, its timer disarmed, in the tick of its N-th
\* invocation: it is never invoked an (N+1)-th time.
C7_ExactlyMaxRuns ==
    /\ [](\A k \in DOMAIN host :
            RunLimited(k, timers, host)
            => /\ host[k].calls = timers[host[k].id].executionCount
               /\ host[k].calls < timers[host[k].id].maxExecutions)
    /\ [][\A k \in DOMAIN host :
            RunLimited(k, timers, host)
            => /\ (\E behaviour \in CallbackBehaviours : IntervalFires(k, behaviour))
                    => host'[k].calls = host[k].calls + 1
               /\ host'[k].calls # host[k].calls
                    => /\ host'[k].calls = host[k].calls + 1
                       /\ host'[k].calls <= timers[host[k].id].maxExecutions
                       /\ host'[k].calls = timers[host[k].id].maxExecutions
                            => (~host'[k].armed /\ ~Registered(k, timers', host'))]_vars

\* C7 witness: a task registered with maxExecutions = MaxRuns has just been removed
\* in the tick of its MaxRuns-th invocation.
C7_Witness ==
    /\ lastLog = "max executions reached"
    /\ \E k \in DOMAIN host :
          /\ host[k].calls = MaxRuns
          /\ ~host[k].armed
          /\ host[k].id \notin DOMAIN timers

\* C8: when setInterval replaces the task registered under an id, the old host timer
\* is disarmed before the new one is armed, the new task has executionCount 0 and is
\* the only armed timer of that id, and a disarmed timer never invokes its callback.
C8_ReplacementIsAtomic ==
    /\ [][\A id \in DOMAIN timers \cap DOMAIN timers' :
            timers'[id].timer # timers[id].timer
            => /\ ~host'[timers[id].timer].armed
               /\ host'[timers'[id].timer].armed
               /\ timers'[id].executionCount = 0
               /\ \A k \in DOMAIN host' :
                    (host'[k].armed /\ host'[k].id = id) => k = timers'[id].timer]_vars
    /\ [][\A k \in DOMAIN host :
            ~host[k].armed => (~host'[k].armed /\ host'[k].calls = host[k].calls)]_vars

\* C8 witness: setInterval has just replaced a periodic task that had already run.
C8_Witness ==
    \E k1, k2 \in DOMAIN host :
        /\ k1 < k2
        /\ host[k1].id = host[k2].id
        /\ host[k1].type = "interval"
        /\ host[k2].type = "interval"
        /\ host[k1].calls >= 1
        /\ ~host[k1].armed
        /\ Registered(k2, timers, host)
        /\ lastReturn = host[k2].id

\* C9: once prepareShutdown has been called no step adds a task, arms a timer or
\* replaces a registered task, a registration returns the empty id, and once the
\* grace timer has fired the registry is empty with no timer armed, for ever.
C9_ShutdownIsFinal ==
    /\ [][isShuttingDown
            => /\ isShuttingDown'
               /\ Len(host') = Len(host)
               /\ DOMAIN timers' \subseteq DOMAIN timers
               /\ \A id \in DOMAIN timers' : timers'[id].timer = timers[id].timer
               /\ lastReturn' \in {"", "none", "true", "false", "void"}]_vars
    /\ [](graceElapsed => (DOMAIN timers = {} /\ \A k \in DOMAIN host : ~host[k].armed))

\* C9 witness: after the grace timer cleared a task that had run, a registration
\* was refused with the empty id.
C9_Witness ==
    /\ graceElapsed
    /\ lastReturn = ""
    /\ \E k \in DOMAIN host : host[k].calls >= 1

(***************************************************************************)
(* Properties of the ResourceLifecycleManager                              *)
(***************************************************************************)
\* C10: when a register call returns, the number of tracked resources is no more
\* than maxResources (register is the only step that adds an entry)
C10_RegisterKeepsWithinCapacity ==
    [][TotalResources' > TotalResources => TotalResources' <= maxResources]_vars

\* the NativeResource objects that are tracked
TrackedInstances(rs) == {rs[i].inst : i \in DOMAIN rs}

\* C11: whenever a record leaves the tracking table, the cleanup of that same record
\* has been invoked by then, also when register replaces a tracked id
C11_CleanupBeforeUntrack ==
    [][\A inst \in TrackedInstances(resources) \ TrackedInstances(resources') :
          cleanupCalls'[inst] >= 1]_vars

\* C12: over its tracked lifetime the cleanup of a resource is invoked at most once,
\* however unregister calls, the idle sweep, the eviction and dispose overlap
C12_CleanupAtMostOnce == \A inst \in Instances : cleanupCalls[inst] <= 1

(***************************************************************************)
(* Properties of the TimerManager's termination policy                     *)
(***************************************************************************)
\* the wrappedCallback of the periodic task armed as host timer k runs in this step
Fires(k) == \E behaviour \in CallbackBehaviours : IntervalFires(k, behaviour)

\* handle is a periodic task whose only termination condition is a ttlMs
TtlOnly(handle) ==
    /\ handle.type = "interval"
    /\ handle.ttlMs # Undefined
    /\ handle.maxExecutions = Undefined
    /\ handle.memoryPressureLimit = Undefined
    /\ ~handle.streamCompleted

\* C13: a periodic task registered with ttlMs = T >= 0 (T = 0 included) and no other
\* policy survives every tick before T has elapsed since its creation and is terminated
\* by the first tick at or after T
C13_TtlTermination ==
    [][\A k \in 1..MaxHostTimers :
         (/\ k \in DOMAIN host
          /\ Registered(k, timers, host)
          /\ TtlOnly(timers[host[k].id])
          /\ Fires(k))
         => (Registered(k, timers', host')
               <=> (now - timers[host[k].id].created) < timers[host[k].id].ttlMs)]_vars

\* C14: at each evaluation the code's termination predicate is true exactly when
\* runCount >= maxRuns, or now - createdAt >= ttlMs, or pressure > pressureLimit, or
\* manualCompletion is true, for every configured value, 0 included
C14_PredicateIsTheOr ==
    \A id \in DOMAIN timers : \A p \in Pressures :
        timers[id].type = "interval" =>
           (ShouldTerminateTimer(timers[id], now, p)
              <=> (\/ (/\ timers[id].maxExecutions # Undefined
                       /\ timers[id].executionCount >= timers[id].maxExecutions)
                   \/ (/\ timers[id].ttlMs # Undefined
                       /\ (now - timers[id].created) >= timers[id].ttlMs)
                   \/ (/\ timers[id].memoryPressureLimit # Undefined
                       /\ p > timers[id].memoryPressureLimit)
                   \/ timers[id].streamCompleted))

\* C15: markStreamCompleted on a registered periodic task returns true and leaves the
\* task registered and armed; the callback of a completed task is never run, its next
\* evaluation (a tick, whatever its callback would do) removes and disarms it, and it
\* never runs again; on an unregistered id it returns false and changes nothing
C15_MarkCompleteDefers ==
    [][/\ MarkStreamCompleted("a") =>
            IF "a" \in DOMAIN timers
            THEN /\ lastReturn' = "true"
                 /\ DOMAIN timers' = DOMAIN timers
                 /\ timers'["a"].streamCompleted
                 /\ host' = host
            ELSE /\ lastReturn' = "false"
                 /\ timers' = timers
                 /\ host' = host
       /\ \A k \in 1..MaxHostTimers :
            (/\ k \in DOMAIN host
             /\ Registered(k, timers, host)
             /\ timers[host[k].id].streamCompleted)
            => /\ host'[k].calls = host[k].calls
               /\ IntervalFires(k, "return")
                     => (host[k].id \notin DOMAIN timers' /\ ~host'[k].armed)
       /\ \A k \in DOMAIN host : ~host[k].armed => host'[k] = host[k]]_vars

\* a periodic task that ran, was marked complete and was then removed by its next
\* evaluation
C15_Witness ==
    /\ lastLog = "stream completed"
    /\ \E k \in DOMAIN host :
          /\ host[k].calls >= 1
          /\ ~host[k].armed
          /\ host[k].id \notin DOMAIN timers

\* C16: a tick whose callback throws and whose termination predicate does not end the
\* task logs the error and leaves the task registered, counted and armed for its next
\* tick
C16_ThrowDoesNotEndTask ==
    [][\A k \in 1..MaxHostTimers :
         (/\ k \in DOMAIN host
          /\ Registered(k, timers, host)
          /\ IntervalFires(k, "throw")
          /\ lastLog' = "none")
         => /\ lastError'
            /\ Registered(k, timers', host')
            /\ host'[k].armed
            /\ host'[k].calls = host[k].calls + 1
            /\ timers'[host[k].id].executionCount
                  = timers[host[k].id].executionCount + 1]_vars

\* a periodic task whose callback has just thrown, after an earlier run, still
\* registered and armed
C16_Witness ==
    /\ lastError
    /\ \E k \in DOMAIN host :
          /\ host[k].type = "interval"
          /\ host[k].calls >= 2
          /\ host[k].armed
          /\ Registered(k, timers, host)

\* C17: a deferred task's callback runs at most once; the firing removes the task from
\* the registry, also when the callback throws; a deferred task that was cancelled or
\* replaced is disarmed and never fires
C17_DeferredFiresOnce ==
    /\ [](\A k \in DOMAIN host :
             host[k].type = "timeout" => host[k].calls <= 1 /\ (host[k].calls = 1 => ~host[k].armed))
    /\ [][\A k \in 1..MaxHostTimers :
            /\ (/\ k \in DOMAIN host
                /\ host[k].type = "timeout"
                /\ Registered(k, timers, host)
                /\ \E behaviour \in CallbackBehaviours : TimeoutFires(k, behaviour))
               => /\ ~Registered(k, timers', host')
                  /\ ~host'[k].armed
                  /\ host'[k].calls = 1
            /\ (/\ k \in DOMAIN host
                /\ host[k].type = "timeout"
                /\ Registered(k, timers, host)
                /\ TimeoutFires(k, "throw"))
               => host[k].id \notin DOMAIN timers' /\ lastError'
            /\ (/\ k \in DOMAIN host
                /\ host[k].type = "timeout"
                /\ Registered(k, timers, host)
                /\ ~Registered(k, timers', host'))
               => ~host'[k].armed
            /\ (k \in DOMAIN host /\ host[k].type = "timeout" /\ ~host[k].armed)
               => host'[k] = host[k]]_vars

\* a deferred task whose callback has just thrown: it ran once and is gone
C17_Witness ==
    /\ lastError
    /\ \E k \in DOMAIN host :
          /\ host[k].type = "timeout"
          /\ host[k].calls = 1
          /\ ~host[k].armed
          /\ host[k].id \notin DOMAIN timers

\* C18: clearTimer(id) returns true exactly when id is registered, and then disarms and
\* removes that task only; on an unregistered id it returns false and changes nothing;
\* an id enters the registry only by a registration that returns it
C18_CancelIdempotent ==
    [][/\ \A id \in Names :
            ClearTimer(id) =>
               /\ lastReturn' = (IF id \in DOMAIN timers THEN "true" ELSE "false")
               /\ id \notin DOMAIN timers'
               /\ \A other \in DOMAIN timers \ {id} :
                     other \in DOMAIN timers' /\ timers'[other] = timers[other]
               /\ IF id \in DOMAIN timers
                  THEN host' = [host EXCEPT ![timers[id].timer].armed = FALSE]
                  ELSE host' = host /\ timers' = timers
       /\ \A id \in DOMAIN timers' \ DOMAIN timers : lastReturn' = id]_vars

\* a cancel that returned false for an id whose task was registered and is gone
C18_Witness ==
    /\ lastReturn = "false"
    /\ \E k \in DOMAIN host :
          /\ host[k].id \in Names
          /\ ~host[k].armed
          /\ host[k].calls = 0
          /\ host[k].id \notin DOMAIN timers

(***************************************************************************)
(* Properties of the TimerManager's emergency cleanup                      *)
(***************************************************************************)
\* the registered periodic tasks
Periodic(tm) == {id \in DOMAIN tm : tm[id].type = "interval"}

\* the registered deferred tasks
Deferred(tm) == {id \in DOMAIN tm : tm[id].type = "timeout"}

\* C19: after the emergency drain at most hardCap periodic tasks are registered, for
\* every hardCap, and the cancelled periodic tasks are a prefix of the ranking by
\* (created ascending, executionCount descending): no surviving task is ranked
\* strictly before a cancelled one
C19_DrainMeetsCap ==
    [][EmergencyCleanup =>
         /\ \A hardCap \in 0..MaxHardCap :
               Cardinality(Periodic(timers)) > hardCap
                  => Cardinality(Periodic(timers')) <= hardCap
         /\ \A c \in Periodic(timers) \ Periodic(timers') :
               \A s \in Periodic(timers') :
                  ~(\/ timers[s].created < timers[c].created
                    \/ (/\ timers[s].created = timers[c].created
                        /\ timers[s].executionCount > timers[c].executionCount))]_vars

\* C20: the emergency cleanup leaves the set of registered deferred tasks, and their
\* timers, as they were
C20_DrainKeepsDeferred ==
    [][EmergencyCleanup =>
         /\ Deferred(timers') = Deferred(timers)
         /\ \A id \in Deferred(timers) :
               host'[timers[id].timer].armed = host[timers[id].timer].armed]_vars

(***************************************************************************)
(* Properties of the Mutex's statistics                                    *)
(***************************************************************************)
\* C25: in every reachable state getStats().currentHolder is defined if and only if
\* getStats().isLocked is true, whether or not the acquisition passed a holderId
C25_HolderSetIffLocked ==
    (GetStats.currentHolder # Undefined) <=> GetStats.isLocked

\* a call of lock() or withLock(): the call leaves the idle state
AcquireCalled == \E c \in Calls : callState[c] = "idle" /\ callState'[c] # "idle"

\* C26: apart from resetStats, contentionCount grows by exactly one in a call of lock()
\* that finds the lock held, and is left alone by every other step
C26_ContentionCountsHeldAcquires ==
    [][~ResetStats =>
          contentionCount' = contentionCount
                               + (IF AcquireCalled /\ locked THEN 1 ELSE 0)]_vars

(***************************************************************************)
(* Properties of the TimerManager's termination reason and statistics      *)
(***************************************************************************)
\* C27: when at least two of the conditions runCount >= maxRuns, now - createdAt >=
\* ttlMs, pressure > pressureLimit and manualCompletion are true at an evaluation of a
\* periodic task, getTerminationReason reports the first true one in that order
C27_ReasonFollowsPriority ==
    \A id \in DOMAIN timers : \A p \in Pressures :
       LET handle == timers[id]
           runs == /\ handle.maxExecutions # Undefined
                   /\ handle.executionCount >= handle.maxExecutions
           ttl == /\ handle.ttlMs # Undefined
                  /\ (now - handle.created) >= handle.ttlMs
           pressure == /\ handle.memoryPressureLimit # Undefined
                       /\ p > handle.memoryPressureLimit
           manual == handle.streamCompleted
           several == Cardinality({c \in {<<1, runs>>, <<2, ttl>>, <<3, pressure>>,
                                          <<4, manual>>} : c[2]}) >= 2
       IN  (handle.type = "interval" /\ several) =>
              GetTerminationReason(handle, now, p)
                 = (IF runs THEN "max executions reached"
                    ELSE IF ttl THEN "TTL expired"
                    ELSE IF pressure THEN "memory pressure limit"
                    ELSE "stream completed")

\* the sum of executionCount over the handles registered under ids
RECURSIVE SumExecutions(_, _)
SumExecutions(tm, ids) ==
    IF ids = {} THEN 0
    ELSE LET id == CHOOSE x \in ids : TRUE
         IN  tm[id].executionCount + SumExecutions(tm, ids \ {id})

\* timer-manager.ts:255-257 the earliest created among the handles, null when none
OldestTimer(tm) ==
    IF DOMAIN tm = {} THEN Undefined
    ELSE CHOOSE t \in {tm[id].created : id \in DOMAIN tm} :
            \A id \in DOMAIN tm : t <= tm[id].created

\* variant of TimerGetStats: totalTimers counts the periodic tasks only
TimerGetStatsPeriodicOnly(tm) ==
    [totalTimers |-> Cardinality({id \in DOMAIN tm : tm[id].type = "interval"}),
     intervals |-> Cardinality({id \in DOMAIN tm : tm[id].type = "interval"}),
     timeouts |-> Cardinality({id \in DOMAIN tm : tm[id].type # "interval"}),
     oldestTimer |-> OldestTimer(tm),
     totalExecutions |-> SumExecutions(tm, DOMAIN tm)]

\* timer-manager.ts:234-267 getStats() of the TimerManager
TimerGetStats(tm) ==
    [totalTimers |-> Cardinality(DOMAIN tm),
     intervals |-> Cardinality({id \in DOMAIN tm : tm[id].type = "interval"}),
     timeouts |-> Cardinality({id \in DOMAIN tm : tm[id].type # "interval"}),
     oldestTimer |-> OldestTimer(tm),
     totalExecutions |-> SumExecutions(tm, DOMAIN tm)]

\* the host timers that are armed: the active tasks
Active(h) == {k \in DOMAIN h : h[k].armed}

\* the number of times the wrapped callbacks of the host timers in ks ran
RECURSIVE SumCalls(_, _)
SumCalls(h, ks) ==
    IF ks = {} THEN 0
    ELSE LET k == CHOOSE x \in ks : TRUE IN h[k].calls + SumCalls(h, ks \ {k})

\* C28: getStats() always reports totalTimers equal to the number of active tasks and
\* to intervals + timeouts, and totalExecutions equal to the sum of the run counts of
\* the active tasks; when no task is active any more, totalTimers is 0
C28_StatsAreTotals ==
    LET stats == TimerGetStats(timers) IN
    /\ stats.totalTimers = Cardinality(Active(host))
    /\ stats.totalTimers = stats.intervals + stats.timeouts
    /\ stats.totalExecutions = SumCalls(host, Active(host))
    /\ Active(host) = {} => stats.totalTimers = 0

\* two periodic tasks registered with maxExecutions = 2 have both terminated after
\* their second run, and getStats() reports no timer
C28_Witness ==
    /\ Cardinality({k \in DOMAIN host :
                       host[k].type = "interval" /\ host[k].calls = 2 /\ ~host[k].armed}) = 2
    /\ lastLog = "max executions reached"
    /\ TimerGetStats(timers).totalTimers = 0

\* C30: whenever a tick auto-terminates a periodic task, the logged reason is one of
\* "max executions reached", "TTL expired", "memory pressure limit" and "stream
\* completed", and the condition it names holds of the handle that was evaluated,
\* whatever the successive pressure samples are
C30_LoggedReasonIsTrue ==
    [][\A k \in DOMAIN host :
         (Registered(k, timers, host) /\ lastLog' # "none") =>
            LET before == timers[host[k].id]
                handle == IF host'[k].calls = host[k].calls THEN before
                          ELSE [before EXCEPT !.executionCount = @ + 1]
            IN  \/ /\ lastLog' = "max executions reached"
                   /\ Truthy(handle.maxExecutions)
                   /\ handle.executionCount >= handle.maxExecutions
                \/ /\ lastLog' = "TTL expired"
                   /\ Truthy(handle.ttlMs)
                   /\ (now - handle.created) >= handle.ttlMs
                \/ /\ lastLog' = "memory pressure limit"
                   /\ Truthy(handle.memoryPressureLimit)
                \/ /\ lastLog' = "stream completed"
                   /\ handle.streamCompleted]_vars

(***************************************************************************)
(* Properties of unregister, the idle sweep, dispose and the eviction      *)
(***************************************************************************)
\* C21: unregister(id) of a tracked resource invokes the cleanup of that resource and,
\* when the cleanup promise settles, fulfilled or rejected alike, the record under id
\* is removed and nothing else is, and the call resolves; unregister of an untracked
\* id invokes no cleanup and changes nothing
C21_UnregisterAlwaysRemoves ==
    [][/\ \A id \in ResourceIds :
            Unregister(id) =>
               IF Tracked(resources, id)
               THEN /\ cleanupCalls' =
                          [cleanupCalls EXCEPT ![resources[IndexOf(resources, id)].inst] = @ + 1]
                    /\ Len(jobs') = Len(jobs) + 1
                    /\ jobs'[Len(jobs')].id = id
                    /\ resources' = resources
               ELSE UNCHANGED <<resources, cleanupCalls, jobs>>
       /\ \A j \in DOMAIN jobs, outcome \in Outcomes :
            CleanupSettles(j, outcome) =>
               /\ ~Tracked(resources', jobs[j].id)
               /\ resources' = Delete(resources, jobs[j].id)
               /\ UnregisterResult(outcome) = "resolved"]_vars

\* an unregister call has ended: the cleanup of its resource was invoked once, the
\* resource is no longer tracked while another one still is, and no call is suspended
C21_Witness ==
    /\ jobs = << >>
    /\ \E inst \in Instances :
          /\ inst <= instances
          /\ cleanupCalls[inst] = 1
          /\ inst \notin TrackedInstances(resources)
    /\ resources # << >>

\* C22: when an idle sweep completes, every resource that was idle for more than
\* maxIdleTime when the sweep began is no longer tracked and has had its cleanup
\* invoked, and the sweep returns the number of resources it selected
C22_SweepCleansTheIdle ==
    [][\A j \in DOMAIN jobs, outcome \in Outcomes :
         (CleanupSettles(j, outcome) /\ Completes(jobs, jobs', j, "routine")) =>
            /\ \A i \in DOMAIN jobs[j].frame.objects :
                  /\ jobs[j].frame.objects[i] \notin TrackedInstances(resources')
                  /\ cleanupCalls'[jobs[j].frame.objects[i]] >= 1
            /\ PerformRoutineCleanupResult(jobs[j].frame) = Len(jobs[j].frame.objects)]_vars

\* C23: when dispose() resolves and no register call was made since it began, no
\* resource is tracked and the cleanup of every resource that was tracked when it
\* began has been invoked; dispose stops the cleanup timer, which is never started
\* again, and the idle sweep only runs while the timer is on
C23_DisposeLeavesNothing ==
    [][/\ \A j \in DOMAIN jobs, outcome \in Outcomes :
            (/\ CleanupSettles(j, outcome)
             /\ Completes(jobs, jobs', j, "dispose")
             /\ instances = jobs[j].frame.began)
            => /\ resources' = << >>
               /\ \A i \in DOMAIN jobs[j].frame.objects :
                     cleanupCalls'[jobs[j].frame.objects[i]] >= 1
               /\ ~cleanupInterval'
       /\ Dispose => ~cleanupInterval'
       /\ (maxResources # Undefined /\ ~cleanupInterval) => ~cleanupInterval'
       /\ RoutineCleanup => cleanupInterval]_vars

\* C24: when a register call finds the table over maxResources, the resources its
\* eviction selects are a quarter (rounded down) of the tracked resources, none of them
\* accessed later than a resource that is kept, and the resource being registered is
\* kept; the eviction removes those resources only, and when it completes each of
\* them is untracked with its cleanup invoked
C24_EvictsOldestQuarter ==
    [][/\ \A id \in ResourceIds :
            (Register(id) /\ OverLimit(Len(resources'), maxResources)) =>
               LET started == {k \in (Len(jobs) + 1)..Len(jobs') :
                                  jobs'[k].frame.kind = "emergency"}
                   victims == UNION {{jobs'[k].frame.objects[i] :
                                         i \in DOMAIN jobs'[k].frame.objects} : k \in started}
                   kept == TrackedInstances(resources') \ victims
                   last(inst) == resources'[CHOOSE i \in DOMAIN resources' :
                                               resources'[i].inst = inst].lastAccessed
               IN  /\ Cardinality(victims) = Len(resources') \div 4
                   /\ \A v \in victims, e \in kept : last(v) <= last(e)
                   /\ instances' \in kept
       /\ \A j \in DOMAIN jobs, outcome \in Outcomes :
            (CleanupSettles(j, outcome) /\ jobs[j].frame.kind = "emergency") =>
               LET victims == {jobs[j].frame.objects[i] : i \in DOMAIN jobs[j].frame.objects}
               IN  /\ TrackedInstances(resources) \ TrackedInstances(resources') \subseteq victims
                   /\ Completes(jobs, jobs', j, "emergency") =>
                         \A v \in victims :
                            /\ v \notin TrackedInstances(resources')
                            /\ cleanupCalls'[v] >= 1]_vars

\* C29: access(id) on a tracked resource sets lastAccessed of its record to the
\* current time and adds one to its accessCount, leaving the rest of that record,
\* every other record, the tracked ids, the cleanups and the suspended calls as they
\* were; access of an untracked id changes nothing
C29_AccessTouchesOneRecord ==
    [][\A id \in ResourceIds :
         Access(id) =>
            /\ UNCHANGED <<cleanupCalls, jobs>>
            /\ IF Tracked(resources, id)
               THEN /\ IdsOf(resources') = IdsOf(resources)
                    /\ \A i \in DOMAIN resources :
                          IF resources[i].id = id
                          THEN /\ resources'[i].lastAccessed = clock
                               /\ resources'[i].accessCount = resources[i].accessCount + 1
                               /\ resources'[i].inst = resources[i].inst
                               /\ resources'[i].createdAt = resources[i].createdAt
                          ELSE resources'[i] = resources[i]
               ELSE resources' = resources]_vars

\* a resource was accessed after the clock had advanced while another one, registered
\* with it, was not
C29_Witness ==
    \E i, k \in DOMAIN resources :
       /\ resources[i].accessCount = 2
       /\ resources[i].lastAccessed > resources[i].createdAt
       /\ resources[k].accessCount = 1
       /\ resources[k].lastAccessed = resources[k].createdAt
       /\ resources[k].createdAt = resources[i].createdAt

(***************************************************************************)
(*          P R O P E R T I E S :  L I F E C Y C L E   U P D A T E         *)
(***************************************************************************)
\* the step invokes the callback of the task armed as host timer k
Invoked(k) == k \in DOMAIN host /\ k \in DOMAIN host' /\ host'[k].calls = host[k].calls + 1

\* C31: updateTimerLifecycle(id, updates) on a registered task returns true and changes
\* exactly the lifecycle fields that are given, each to the given value; on an id not
\* in the registry it returns false and changes nothing; and once maxExecutions of a
\* registered task is at or below its runCount (tasks are registered with a limit above
\* their count, so only an update lowers it that far), its callback is not invoked.
C31_UpdateTakesEffect ==
    [][/\ \A updates \in AllOptions :
             UpdateTimerLifecycle("a", updates) =>
                IF "a" \in DOMAIN timers
                THEN /\ lastReturn' = "true"
                     /\ DOMAIN timers' = DOMAIN timers
                     /\ \A f \in DOMAIN timers["a"] :
                           timers'["a"][f] = IF f \in DefinedFields(updates) THEN updates[f]
                                             ELSE timers["a"][f]
                     /\ UNCHANGED <<host, nextId>>
                ELSE /\ lastReturn' = "false"
                     /\ UNCHANGED <<timers, host, nextId>>
       /\ \A k \in 1..MaxHostTimers :
             Invoked(k) =>
                ~(/\ host[k].id \in DOMAIN timers
                  /\ timers[host[k].id].timer = k
                  /\ timers[host[k].id].maxExecutions # Undefined
                  /\ timers[host[k].id].maxExecutions <= timers[host[k].id].executionCount)
      ]_vars

(***************************************************************************)
(* Properties of registration against calls that are already under way     *)
(***************************************************************************)
\* C32: a registered resource leaves the tracking table only through an unregister,
\* idle sweep, eviction or dispose that selected that resource, that is, one that began
\* when the resource was already tracked; in particular, when the pending cleanup of
\* a resource replaced under its id settles, the replacing resource stays tracked
C32_RegisteredStaysTracked ==
    [][\A inst \in TrackedInstances(resources) \ TrackedInstances(resources') :
          \E job \in {jobs[j] : j \in DOMAIN jobs} \cup {jobs'[j] : j \in DOMAIN jobs'} :
             \E i \in DOMAIN job.frame.objects : job.frame.objects[i] = inst]_vars

(***************************************************************************)
(* Progress of the lock                                                    *)
(***************************************************************************)
\* C33: with every granted caller calling its release function exactly once, whenever
\* the granted callers have all released and no call is waiting (waiters having been
\* granted or having timed out at any point), the lock eventually becomes free
C33_LockEventuallyFree ==
    (\A c \in Calls : callState[c] \notin {"pending", "granted", "infn"}) ~> ~locked

(***************************************************************************)
(* Properties of host timers against the registry                          *)
(***************************************************************************)
\* C34: when the callback of a periodic task registers a task under the task's own id
\* (the run creates a host timer), the task registered by the callback is in the
\* registry with its host timer armed when the run ends, whatever the termination
\* check after the callback finds for the old task
C34_ReregistrationSurvives ==
    [][\A k \in 1..MaxHostTimers :
          (Invoked(k) /\ host[k].type = "interval" /\ Len(host') = Len(host) + 1) =>
             /\ host[k].id \in DOMAIN timers'
             /\ timers'[host[k].id].timer = Len(host')
             /\ host'[Len(host')].armed]_vars

\* C35: a host timer is armed exactly when the registry holds an entry under its id
\* that points to it, every registry entry points to such a host timer, and the only
\* callbacks invoked are those of armed host timers with their registry entry: a task
\* removed by cancel, replacement, auto-termination, emergency cleanup, clearAll or
\* shutdown is not armed and so never invokes its callback afterwards
C35_ArmedIffRegistered ==
    /\ [](/\ \A k \in DOMAIN host :
               host[k].armed <=> (/\ host[k].id \in DOMAIN timers
                                  /\ timers[host[k].id].timer = k)
          /\ \A id \in DOMAIN timers :
               /\ timers[id].timer \in DOMAIN host
               /\ host[timers[id].timer].id = id
               /\ host[timers[id].timer].type = timers[id].type)
    /\ [][\A k \in 1..MaxHostTimers :
             Invoked(k) => (/\ host[k].armed
                            /\ host[k].id \in DOMAIN timers
                            /\ timers[host[k].id].timer = k)]_vars

\* a task that has run was replaced under its id: its host timer is disarmed, and the
\* task registered in its place has run since
C35_Witness ==
    /\ Len(host) = 2
    /\ host[1].id = host[2].id
    /\ ~host[1].armed /\ host[1].calls >= 1
    /\ host[2].armed /\ host[2].calls >= 1
    /\ timers[host[2].id].timer = 2

\* C36: a second call of a release function has no effect: the lock is not freed, no
\* queued waiter is removed or has its timeout cleared, no hand-off is scheduled and no
\* call's outcome changes
C36_SecondReleaseIsNoOp ==
    [][\A c \in Calls :
          ReleaseAgain(c) =>
             UNCHANGED <<locked, currentHolder, queue, timeoutArmed, immediates,
                         callState>>]_vars

(***************************************************************************)
(* Properties of the idle sweep against access                             *)
(***************************************************************************)
\* C37: the idle sweep begins the unregister of a resource it selected (invokes its
\* cleanup) only when the idle time of that resource exceeds maxIdleTime at that
\* moment: a resource accessed after the sweep selected its candidates is left alone
C37_SweepSparesTheAccessed ==
    [][\A i \in DOMAIN resources :
          (/\ cleanupCalls'[resources[i].inst] = cleanupCalls[resources[i].inst] + 1
           /\ jobs' # << >>
           /\ jobs'[Len(jobs')].frame.kind = "routine"
           /\ jobs'[Len(jobs')].id = resources[i].id
           /\ \E n \in DOMAIN jobs'[Len(jobs')].frame.objects :
                 jobs'[Len(jobs')].frame.objects[n] = resources[i].inst)
          => (clock - resources[i].lastAccessed) > maxIdleTime]_vars

\* C38: when emergencyCleanup() returns, no task in the registry is older than the
\* long-running threshold (5 minutes) or has more executions than the execution
\* threshold (1000), and either at most 10 tasks are registered or none of them is
\* periodic
C38_CleanupPostcondition ==
    [][EmergencyCleanup =>
         /\ \A id \in DOMAIN timers' :
               /\ (now' - timers'[id].created) <= LongRunningThreshold
               /\ timers'[id].executionCount <= HighExecutionThreshold
         /\ \/ Cardinality(DOMAIN timers') <= TimerCountThreshold
            \/ Periodic(timers') = {}]_vars

\* an emergency cleanup has returned with more than 10 tasks left, all deferred: it
\* cleared a periodic task with more than 1000 executions and a periodic task with
\* fewer, and the tasks left have their host timers armed
C38_Witness ==
    /\ lastReturn = "void"
    /\ Cardinality(DOMAIN timers) > TimerCountThreshold
    /\ \A id \in DOMAIN timers : host[timers[id].timer].armed
    /\ \E k \in DOMAIN host :
          ~host[k].armed /\ host[k].type = "interval" /\ host[k].calls > HighExecutionThreshold
    /\ \E k \in DOMAIN host :
          ~host[k].armed /\ host[k].type = "interval" /\ host[k].calls <= HighExecutionThreshold

(***************************************************************************)
(* Properties of the ResourcePool                                          *)
(***************************************************************************)
\* C39: in every reachable state of a pool whose callers release each acquired
\* resource once, the pool has created at most maxSize resources, every resource in
\* use is one of the created resources, and no resource is held by two callers
C39_PoolInvariant ==
    maxSize # Undefined =>
       /\ Len(poolResources) <= maxSize
       /\ inUse \subseteq {poolResources[i] : i \in DOMAIN poolResources}
       /\ \A a, b \in Acquirers :
             (a # b /\ acquireState[a] = "holding" /\ acquireState[b] = "holding")
                => held[a] # held[b]

====
